---- MODULE Spec2Model ----
(***************************************************************************)
(* Model of the yatube "posts" application: the views of                   *)
(* yatube/posts/views.py acting on the Post / Group / Comment / Follow     *)
(* tables, the login_required gate, the paginator and the cached home      *)
(* listing.  One action per view; a request is handled atomically.         *)
(***************************************************************************)
EXTENDS Integers, Sequences, FiniteSets, TLC

----------------------------------------------------------------------------
(* Bounds of the model *)

MaxPosts == 2
MaxComments == 1
MaxFollows == 3
MaxFlight == 2
MaxTime == 1
MaxSeed == 14
MaxFeedPosts == 2
MaxCachePosts == 2
MaxCacheTime == 30
CacheTick == 10

----------------------------------------------------------------------------
(* Configuration and input domains *)

POSTS_ON_PAGE == 10
POSTS_ON_SECOND_PAGE == 3
SEED_POSTS == 13
CACHE_SECONDS == 20

Users == {"auth1", "auth2"}
Anonymous == "anonymous"
Clients == Users \cup {Anonymous}
Usernames == Users \cup {"nobody"}

AllGroups == {"g1"}
Slugs == AllGroups \cup {"no-slug"}
NoGroup == "none"

Texts == {"a", "b"}
NoData == [text |-> "", group |-> NoGroup, bound |-> FALSE]
FormData == [text : Texts \cup {""}, group : AllGroups \cup {NoGroup},
             bound : {TRUE}]
Bodies == {<<"GET", NoData>>, <<"POST", NoData>>}
              \cup {<<"POST", d>> : d \in FormData}

NoPage == -1
PageParams == {NoPage, 0, 1, 2, 3}

NoName == "-"
NoPk == 0
PostIds == 1 .. (MaxPosts + 1)
NoPath == <<>>

----------------------------------------------------------------------------
(* URL routes, as reversed by the tests *)

IndexPath == <<"">>
GroupPath(slug) == <<"group", slug>>
ProfilePath(username) == <<"profile", username>>
PostDetailPath(post_id) == <<"posts", ToString(post_id)>>
PostEditPath(post_id) == <<"posts", ToString(post_id), "edit">>
PostCreatePath == <<"create">>
AddCommentPath(post_id) == <<"posts", ToString(post_id), "comment">>
FollowIndexPath == <<"follow">>
ProfileFollowPath(username) == <<"profile", username, "follow">>
ProfileUnfollowPath(username) == <<"profile", username, "unfollow">>
LoginPath == <<"auth", "login">>

\* request.get_full_path(): the path with its query string
FullPath(path, page) ==
    IF page = NoPage THEN path ELSE path \o <<"?page", ToString(page)>>

----------------------------------------------------------------------------
VARIABLES
    posts,        \* Post table: set of [id, author, text, group, pub_date]
    nextPostId,   \* next primary key of the Post table
    comments,     \* Comment table: set of [id, post, author, text]
    nextCommentId,
    follows,      \* Follow table: set of [id, user, author]
    nextFollowId,
    groups,       \* Group table: the slugs of the existing groups
    now,          \* the clock, in seconds
    cache,        \* page cache of the home listing: page -> entry
    prevFollows,  \* history: the Follow table before the last request
    last,         \* the last request and its response
    flight        \* requests between two of their queries: slot -> request

vars == <<posts, nextPostId, comments, nextCommentId, follows, nextFollowId,
          groups, now, cache, prevFollows, last, flight>>

store == <<posts, nextPostId, comments, nextCommentId, follows, nextFollowId,
           groups>>

----------------------------------------------------------------------------
(* Query helpers *)

Max(S) == CHOOSE x \in S : \A y \in S : y <= x

\* get_object_or_404(Post, pk=post_id)
PostById(post_id) == {p \in posts : p.id = post_id}

\* A queryset of Post in the model's default ordering, newest first.  Rows
\* with equal pub_date come in an order the database is free to choose, so
\* the result is the set of all orders that respect -pub_date.
RECURSIVE OrderedOldestFirst(_)
OrderedOldestFirst(S) ==
    IF S = {} THEN {<<>>}
    ELSE LET newest == Max({p.pub_date : p \in S})
             tails == {p \in S : p.pub_date = newest}
         IN UNION {{rest \o <<p>> : rest \in OrderedOldestFirst(S \ {p})} :
                      p \in tails}

RECURSIVE Ordered(_)
Ordered(S) ==
    IF S = {} THEN {<<>>}
    ELSE LET newest == Max({p.pub_date : p \in S})
             heads == {p \in S : p.pub_date = newest}
         IN UNION {{<<p>> \o rest : rest \in Ordered(S \ {p})} : p \in heads}

\* Paginator(posts, per_page).num_pages
NumPages(count, per_page) ==
    IF count = 0 THEN 1 ELSE (count + per_page - 1) \div per_page

\* Paginator.get_page(number): a missing page parameter gives page 1, a
\* number outside 1..num_pages gives the last page.
PageNumber(count, per_page, number) ==
    IF number = NoPage THEN 1
    ELSE IF number < 1 \/ number > NumPages(count, per_page)
         THEN NumPages(count, per_page)
         ELSE number

\* Paginator.page(n).object_list: the slice [(n-1)*per_page, n*per_page)
PageSlice(qs, per_page, n) ==
    LET bottom == (n - 1) * per_page
        top == IF bottom + per_page > Len(qs) THEN Len(qs)
               ELSE bottom + per_page
    IN SubSeq(qs, bottom + 1, top)

get_page_context_first_page(qs, page_number) ==
    PageSlice(qs, POSTS_ON_PAGE, 1)

\* get_page_context(posts, request)['page_obj']
get_page_context(qs, page_number) ==
    PageSlice(qs, POSTS_ON_PAGE,
              PageNumber(Len(qs), POSTS_ON_PAGE, page_number))

FeedRowsOfFollowers(user) ==
    {[post |-> p, via |-> f.id, pub_date |-> p.pub_date] :
        <<p, f>> \in {pf \in posts \X follows :
                         pf[2].author = user /\ pf[2].user = pf[1].author}}

\* Post.objects.filter(author__following__user=user): the join of Post with
\* Follow on the post's author, one row per matching Follow record.
FeedRows(user) ==
    {[post |-> p, via |-> f.id, pub_date |-> p.pub_date] :
        <<p, f>> \in {pf \in posts \X follows :
                         pf[2].user = user /\ pf[2].author = pf[1].author}}

\* the posts of the rows of an ordered queryset
RowPosts(rows) == [i \in 1 .. Len(rows) |-> rows[i].post]

\* PostForm(request.POST or None).is_valid(): the form is bound, the text
\* is not empty and the group, when given, is an existing group.
PostFormValid(data) ==
    /\ data.bound
    /\ data.text # ""
    /\ data.group \in groups \cup {NoGroup}

\* CommentForm(request.POST or None).is_valid()
CommentFormValid(data) == data.bound /\ data.text # ""

----------------------------------------------------------------------------
(* Requests and responses *)

Get == <<"GET", NoData>>

\* name: the username or slug of the URL, pk: its post id, page: ?page=
Request(view, user, body, name, pk, page) ==
    [view |-> view, user |-> user, method |-> body[1], data |-> body[2],
     name |-> name, pk |-> pk, page |-> page]

NoRequest == Request("none", Anonymous, Get, NoName, NoPk, NoPage)

\* a step that is not a request to a view of the application
Event(kind, name, pk) ==
    [req |-> Request(kind, Anonymous, Get, name, pk, NoPage), status |-> 0,
     location |-> NoPath, next |-> NoPath, page_obj |-> <<>>,
     content |-> <<>>]

Response(req, status, location, next, page_obj, content) ==
    [req |-> req, status |-> status, location |-> location, next |-> next,
     page_obj |-> page_obj, content |-> content]

\* render(request, template, context) with a page of posts in the context
Render(req, page_obj) == Response(req, 200, NoPath, NoPath, page_obj, page_obj)

RenderFormAsRedirect(req) == Response(req, 302, <<"">>, NoPath, <<>>, <<>>)

\* render(...) of a page without a listing
RenderForm(req) == Response(req, 200, NoPath, NoPath, <<>>, <<>>)

\* redirect(to)
Redirect(req, to) == Response(req, 302, to, NoPath, <<>>, <<>>)

NotFoundAsEmptyPage(req) == Response(req, 200, NoPath, NoPath, <<>>, <<>>)

\* get_object_or_404 raised Http404
NotFound(req) == Response(req, 404, NoPath, NoPath, <<>>, <<>>)

LoginRequiredNoNext(req, path) ==
    Response(req, 302, LoginPath, NoPath, <<>>, <<>>)

\* @login_required: an anonymous client is sent to the login page with the
\* requested path in the next parameter, and the view does not run.
LoginRequired(req, path) == Response(req, 302, LoginPath, path, <<>>, <<>>)

NoCache == [filled |-> FALSE, expires |-> 0, content |-> <<>>]

\* the requests that can be in progress at the same time
Slots == 1 .. MaxFlight

\* a slot without a request; cond is the value of the view's condition
\* and seen the Follow records that its exists() query matched
Idle == [view |-> "none", user |-> Anonymous, name |-> NoName,
         pc |-> "idle", cond |-> FALSE, seen |-> {}]

Init ==
    /\ posts = {}
    /\ nextPostId = 1
    /\ comments = {}
    /\ nextCommentId = 1
    /\ follows = {}
    /\ nextFollowId = 1
    /\ groups = AllGroups
    /\ now = 0
    /\ cache = [pg \in PageParams |-> NoCache]
    /\ prevFollows = {}
    /\ last = Response(NoRequest, 0, NoPath, NoPath, <<>>, <<>>)
    /\ flight = [s \in Slots |-> Idle]

----------------------------------------------------------------------------
(* Listing views *)

CacheHitNever(entry) == FALSE

\* The cached home listing: an entry is served until its timeout.
CacheHit(entry) == entry.filled /\ now < entry.expires

CacheEntry(content) ==
    [filled |-> TRUE, expires |-> now + CACHE_SECONDS, content |-> content]

index(user, page) ==
    \E qs \in Ordered(posts) :
        LET req == Request("index", user, Get, NoName, NoPk, page)
            page_obj == get_page_context(qs, page)
            hit == CacheHit(cache[page])
        IN /\ last' = [Render(req, page_obj) EXCEPT
                           !.content = IF hit THEN cache[page].content
                                       ELSE page_obj]
           /\ cache' = IF hit THEN cache
                       ELSE [cache EXCEPT ![page] = CacheEntry(page_obj)]
           /\ prevFollows' = follows
           /\ UNCHANGED flight
           /\ UNCHANGED <<store, now>>

group_posts(user, slug, page) ==
    LET req == Request("group_posts", user, Get, slug, NoPk, page)
    IN /\ IF slug \notin groups
          THEN last' = NotFound(req)
          ELSE \E qs \in Ordered({p \in posts : p.group = slug}) :
                   last' = Render(req, get_page_context(qs, page))
       /\ prevFollows' = follows
       /\ UNCHANGED flight
       /\ UNCHANGED <<store, now, cache>>

profile(user, username, page) ==
    LET req == Request("profile", user, Get, username, NoPk, page)
    IN /\ IF username \notin Users
          THEN last' = NotFound(req)
          ELSE \E qs \in Ordered({p \in posts : p.author = username}) :
                   last' = Render(req, get_page_context(qs, page))
       /\ prevFollows' = follows
       /\ UNCHANGED flight
       /\ UNCHANGED <<store, now, cache>>

post_detail(user, post_id) ==
    LET req == Request("post_detail", user, Get, NoName, post_id, NoPage)
    IN /\ last' = IF PostById(post_id) = {} THEN NotFound(req)
                  ELSE RenderForm(req)
       /\ prevFollows' = follows
       /\ UNCHANGED flight
       /\ UNCHANGED <<store, now, cache>>

follow_index(user, page) ==
    LET req == Request("follow_index", user, Get, NoName, NoPk, page)
    IN /\ IF user = Anonymous
          THEN last' = LoginRequired(req, FullPath(FollowIndexPath, page))
          ELSE \E rows \in Ordered(FeedRows(user)) :
                   last' = Render(req, get_page_context(RowPosts(rows), page))
       /\ prevFollows' = follows
       /\ UNCHANGED flight
       /\ UNCHANGED <<store, now, cache>>

----------------------------------------------------------------------------
(* Mutation views *)

\* form.save(commit=False); post.author = request.user; post.save()
NewPostNoGroup(user, data) ==
    [id |-> nextPostId, author |-> user, text |-> data.text,
     group |-> NoGroup, pub_date |-> now]

NewPost(user, data) ==
    [id |-> nextPostId, author |-> user, text |-> data.text,
     group |-> data.group, pub_date |-> now]

post_create(user, body, cap) ==
    LET req == Request("post_create", user, body, NoName, NoPk, NoPage)
        data == body[2]
    IN /\ prevFollows' = follows
       /\ UNCHANGED flight
       /\ UNCHANGED <<comments, nextCommentId, follows, nextFollowId,
                      groups, now, cache>>
       /\ IF user = Anonymous
          THEN /\ last' = LoginRequired(req, PostCreatePath)
               /\ UNCHANGED <<posts, nextPostId>>
          ELSE IF PostFormValid(data)
          THEN /\ nextPostId <= cap
               /\ posts' = posts \cup {NewPost(user, data)}
               /\ nextPostId' = nextPostId + 1
               /\ last' = Redirect(req, ProfilePath(user))
          ELSE /\ last' = RenderForm(req)
               /\ UNCHANGED <<posts, nextPostId>>

\* PostForm(..., instance=post).save(): the form's fields are written to
\* the instance, the other fields of the row are kept.
SavePostFormKeepText(post, data) ==
    [post EXCEPT !.group = data.group]

SavePostForm(post, data) ==
    [post EXCEPT !.text = data.text, !.group = data.group]

IsAuthorAnyone(post, user) == TRUE

\* post.author != request.user sends the client away
IsAuthor(post, user) == post.author = user

post_edit(user, body, post_id) ==
    LET req == Request("post_edit", user, body, NoName, post_id, NoPage)
        data == body[2]
    IN /\ prevFollows' = follows
       /\ UNCHANGED flight
       /\ UNCHANGED <<nextPostId, comments, nextCommentId, follows,
                      nextFollowId, groups, now, cache>>
       /\ IF user = Anonymous
          THEN /\ last' = LoginRequired(req, PostEditPath(post_id))
               /\ UNCHANGED posts
          ELSE IF PostById(post_id) = {}
          THEN /\ last' = NotFound(req)
               /\ UNCHANGED posts
          ELSE LET post == CHOOSE p \in posts : p.id = post_id
               IN IF ~IsAuthor(post, user)
                  THEN /\ last' = Redirect(req, PostDetailPath(post_id))
                       /\ UNCHANGED posts
                  ELSE IF PostFormValid(data)
                  THEN /\ posts' = (posts \ {post})
                                      \cup {SavePostForm(post, data)}
                       /\ last' = Redirect(req, PostDetailPath(post_id))
                  ELSE /\ last' = RenderForm(req)
                       /\ UNCHANGED posts

NewCommentOfPostAuthor(user, post, data) ==
    [id |-> nextCommentId, post |-> post.id, author |-> post.author,
     text |-> data.text]

\* form.save(commit=False); comment.author = request.user;
\* comment.post = post; comment.save()
NewComment(user, post, data) ==
    [id |-> nextCommentId, post |-> post.id, author |-> user,
     text |-> data.text]

add_comment(user, body, post_id) ==
    LET req == Request("add_comment", user, body, NoName, post_id, NoPage)
        data == body[2]
    IN /\ prevFollows' = follows
       /\ UNCHANGED flight
       /\ UNCHANGED <<posts, nextPostId, follows, nextFollowId, groups,
                      now, cache>>
       /\ IF user = Anonymous
          THEN /\ last' = LoginRequired(req, AddCommentPath(post_id))
               /\ UNCHANGED <<comments, nextCommentId>>
          ELSE IF PostById(post_id) = {}
          THEN /\ last' = NotFound(req)
               /\ UNCHANGED <<comments, nextCommentId>>
          ELSE /\ last' = Redirect(req, PostDetailPath(post_id))
               /\ IF CommentFormValid(data)
                  THEN /\ nextCommentId <= MaxComments
                       /\ comments' = comments \cup
                              {NewComment(user,
                                   CHOOSE p \in posts : p.id = post_id,
                                   data)}
                       /\ nextCommentId' = nextCommentId + 1
                  ELSE UNCHANGED <<comments, nextCommentId>>

----------------------------------------------------------------------------
(* Follow views *)

FollowLinksReversed(user, author) ==
    {f \in follows : f.user = author /\ f.author = user}

\* Follow.objects.filter(user=user, author=author)
FollowLinks(user, author) ==
    {f \in follows : f.user = user /\ f.author = author}

FollowDoneToProfile(req, username) == Redirect(req, ProfilePath(username))

\* return redirect('posts:follow_index'), the last line of both views
FollowDone(req, username) == Redirect(req, FollowIndexPath)

MayFollowSelf(user, author) == FollowLinks(user, author) = {}

MayFollowAgain(user, author) == author # user

\* author != request.user and not Follow.objects.filter(...).exists()
MayFollow(user, author) ==
    author # user /\ FollowLinks(user, author) = {}

\* Follow.objects.create(user=request.user, author=author)
NewFollow(user, author) ==
    [id |-> nextFollowId, user |-> user, author |-> author]

profile_follow(user, body, username) ==
    LET req == Request("profile_follow", user, body, username, NoPk, NoPage)
    IN /\ prevFollows' = follows
       /\ UNCHANGED flight
       /\ UNCHANGED <<posts, nextPostId, comments, nextCommentId, groups,
                      now, cache>>
       /\ IF user = Anonymous
          THEN /\ last' = LoginRequired(req, ProfileFollowPath(username))
               /\ UNCHANGED <<follows, nextFollowId>>
          ELSE IF username \notin Users
          THEN /\ last' = NotFound(req)
               /\ UNCHANGED <<follows, nextFollowId>>
          ELSE /\ last' = FollowDone(req, username)
               /\ IF MayFollow(user, username)
                  THEN /\ nextFollowId <= MaxFollows
                       /\ follows' = follows \cup {NewFollow(user, username)}
                       /\ nextFollowId' = nextFollowId + 1
                  ELSE UNCHANGED <<follows, nextFollowId>>

\* An exception that no view catches: the server answers 500.
ServerError(req) == Response(req, 500, NoPath, NoPath, <<>>, <<>>)

profile_unfollow(user, body, username) ==
    LET req == Request("profile_unfollow", user, body, username, NoPk,
                       NoPage)
        links == FollowLinks(user, username)
    IN /\ prevFollows' = follows
       /\ UNCHANGED flight
       /\ UNCHANGED <<posts, nextPostId, comments, nextCommentId,
                      nextFollowId, groups, now, cache>>
       /\ IF user = Anonymous
          THEN /\ last' = LoginRequired(req, ProfileUnfollowPath(username))
               /\ UNCHANGED follows
          ELSE IF username \notin Users
          THEN /\ last' = NotFound(req)
               /\ UNCHANGED follows
          ELSE IF links = {}
          THEN /\ last' = FollowDone(req, username)
               /\ UNCHANGED follows
          ELSE IF Cardinality(links) = 1
          THEN /\ follows' = follows \ links
               /\ last' = FollowDone(req, username)
          ELSE \* Follow.objects.get() raises MultipleObjectsReturned
               /\ last' = ServerError(req)
               /\ UNCHANGED follows

----------------------------------------------------------------------------
(* profile_follow and profile_unfollow, one query at a time.  Each view
   runs two statements on the shared store, with nothing that keeps another
   request from running between them: the exists() query of its condition,
   and then the create(), or the get() and delete(), of its body. *)

\* the request that a slot holds
FlightRequest(s) ==
    Request(flight[s].view, flight[s].user, Get, flight[s].name, NoPk, NoPage)

\* profile_follow up to its condition: login_required and get_object_or_404
\* have let the request through, and the condition has been evaluated
FollowCheck(s, user, username) ==
    /\ flight[s].pc = "idle"
    /\ user \in Users
    /\ username \in Users
    /\ flight' = [flight EXCEPT ![s] =
                     [view |-> "profile_follow", user |-> user,
                      name |-> username, pc |-> "checked",
                      cond |-> MayFollow(user, username),
                      seen |-> FollowLinks(user, username)]]
    /\ UNCHANGED <<posts, nextPostId, comments, nextCommentId, follows,
                   nextFollowId, groups, now, cache, prevFollows, last>>

\* the rest of profile_follow: the create() if the condition held, and the
\* redirect
FollowCreate(s) ==
    LET req == FlightRequest(s)
    IN /\ flight[s].pc = "checked"
       /\ flight[s].view = "profile_follow"
       /\ prevFollows' = follows
       /\ flight' = [flight EXCEPT ![s] = Idle]
       /\ last' = FollowDone(req, req.name)
       /\ UNCHANGED <<posts, nextPostId, comments, nextCommentId, groups,
                      now, cache>>
       /\ IF flight[s].cond
          THEN /\ nextFollowId <= MaxFollows
               /\ follows' = follows \cup {NewFollow(req.user, req.name)}
               /\ nextFollowId' = nextFollowId + 1
          ELSE UNCHANGED <<follows, nextFollowId>>

\* profile_unfollow up to its condition
UnfollowCheck(s, user, username) ==
    /\ flight[s].pc = "idle"
    /\ user \in Users
    /\ username \in Users
    /\ flight' = [flight EXCEPT ![s] =
                     [view |-> "profile_unfollow", user |-> user,
                      name |-> username, pc |-> "checked",
                      cond |-> FollowLinks(user, username) # {},
                      seen |-> FollowLinks(user, username)]]
    /\ UNCHANGED <<posts, nextPostId, comments, nextCommentId, follows,
                   nextFollowId, groups, now, cache, prevFollows, last>>

\* the rest of profile_unfollow: Follow.objects.get(...).delete() if the
\* condition held, and the redirect; get() raises DoesNotExist when it finds
\* no record and MultipleObjectsReturned when it finds more than one
UnfollowDelete(s) ==
    LET req == FlightRequest(s)
        links == FollowLinks(req.user, req.name)
    IN /\ flight[s].pc = "checked"
       /\ flight[s].view = "profile_unfollow"
       /\ prevFollows' = follows
       /\ flight' = [flight EXCEPT ![s] = Idle]
       /\ UNCHANGED <<posts, nextPostId, comments, nextCommentId,
                      nextFollowId, groups, now, cache>>
       /\ IF ~flight[s].cond
          THEN /\ last' = FollowDone(req, req.name)
               /\ UNCHANGED follows
          ELSE IF Cardinality(links) = 1
          THEN /\ follows' = follows \ links
               /\ last' = FollowDone(req, req.name)
          ELSE /\ last' = ServerError(req)
               /\ UNCHANGED follows

----------------------------------------------------------------------------
(* The admin site, the clock and the cache *)

\* Deleting a post in the admin site; its comments go with it.
AdminDeletePost(post_id) ==
    /\ PostById(post_id) # {}
    /\ posts' = posts \ PostById(post_id)
    /\ comments' = {c \in comments : c.post # post_id}
    /\ last' = Event("admin_delete_post", NoName, post_id)
    /\ prevFollows' = follows
    /\ UNCHANGED flight
    /\ UNCHANGED <<nextPostId, nextCommentId, follows, nextFollowId, groups,
                   now, cache>>

\* Deleting a group in the admin site: on_delete=SET_NULL on Post.group.
OnGroupDeleteCascade(rows, slug) == {p \in rows : p.group # slug}

\* on_delete=SET_NULL of Post.group: the posts of the group lose the
\* reference and stay.
OnGroupDelete(rows, slug) ==
    {IF p.group = slug THEN [p EXCEPT !.group = NoGroup] ELSE p : p \in rows}

AdminDeleteGroup(slug) ==
    /\ slug \in groups
    /\ groups' = groups \ {slug}
    /\ posts' = OnGroupDelete(posts, slug)
    /\ last' = Event("admin_delete_group", slug, NoPk)
    /\ prevFollows' = follows
    /\ UNCHANGED flight
    /\ UNCHANGED <<nextPostId, comments, nextCommentId, follows,
                   nextFollowId, now, cache>>

\* Time passes: the clock advances by step seconds.
Tick(step, limit) ==
    /\ now + step <= limit
    /\ now' = now + step
    /\ last' = Event("tick", NoName, NoPk)
    /\ prevFollows' = follows
    /\ UNCHANGED flight
    /\ UNCHANGED <<store, cache>>

\* cache.clear()
CacheClear ==
    /\ cache' = [pg \in PageParams |-> NoCache]
    /\ last' = Event("cache_clear", NoName, NoPk)
    /\ prevFollows' = follows
    /\ UNCHANGED flight
    /\ UNCHANGED <<store, now>>

----------------------------------------------------------------------------
(* The application: every view, for every client and every input *)

Next ==
    \/ \E u \in Clients, pg \in PageParams : index(u, pg)
    \/ \E u \in Clients, sl \in Slugs, pg \in PageParams :
           group_posts(u, sl, pg)
    \/ \E u \in Clients, n \in Usernames, pg \in PageParams :
           profile(u, n, pg)
    \/ \E u \in Clients, id \in PostIds : post_detail(u, id)
    \/ \E u \in Clients, pg \in PageParams : follow_index(u, pg)
    \/ \E u \in Clients, b \in Bodies : post_create(u, b, MaxPosts)
    \/ \E u \in Clients, b \in Bodies, id \in PostIds : post_edit(u, b, id)
    \/ \E u \in Clients, b \in Bodies, id \in PostIds : add_comment(u, b, id)
    \/ \E u \in Clients, b \in Bodies, n \in Usernames :
           profile_follow(u, b, n)
    \/ \E u \in Clients, b \in Bodies, n \in Usernames :
           profile_unfollow(u, b, n)
    \/ \E id \in PostIds : AdminDeletePost(id)
    \/ \E sl \in AllGroups : AdminDeleteGroup(sl)
    \/ Tick(1, MaxTime)
    \/ CacheClear

Spec == Init /\ [][Next]_vars

----------------------------------------------------------------------------
(* Creating and editing posts: the two post forms, with the admin site *)

NextPosts ==
    \/ \E u \in Users, b \in Bodies : post_create(u, b, MaxPosts)
    \/ \E u \in Users, b \in Bodies, id \in PostIds : post_edit(u, b, id)
    \/ \E id \in PostIds : AdminDeletePost(id)
    \/ \E sl \in AllGroups : AdminDeleteGroup(sl)

SpecPosts == Init /\ [][NextPosts]_vars

(* The protected routes for an anonymous client, on a store that logged-in
   clients fill *)

ValidBody == <<"POST", [text |-> "a", group |-> NoGroup, bound |-> TRUE]>>

NextGuest ==
    \/ \E b \in Bodies : post_create(Anonymous, b, MaxPosts)
    \/ \E b \in Bodies, id \in PostIds : post_edit(Anonymous, b, id)
    \/ \E b \in Bodies, id \in PostIds : add_comment(Anonymous, b, id)
    \/ \E pg \in PageParams : follow_index(Anonymous, pg)
    \/ \E b \in Bodies, n \in Usernames : profile_follow(Anonymous, b, n)
    \/ \E b \in Bodies, n \in Usernames : profile_unfollow(Anonymous, b, n)
    \/ post_create("auth1", ValidBody, MaxPosts)
    \/ \E id \in PostIds : add_comment("auth2", ValidBody, id)
    \/ \E n \in Users : profile_follow("auth1", ValidBody, n)

SpecGuest == Init /\ [][NextGuest]_vars

(* Commenting on the posts of one author *)

NextComments ==
    \/ post_create("auth1", ValidBody, MaxPosts)
    \/ \E u \in Users, b \in Bodies, id \in PostIds : add_comment(u, b, id)

SpecComments == Init /\ [][NextComments]_vars

(* Requests that name a post, a group or a user, existing or not *)

NextMissing ==
    \/ post_create("auth1", ValidBody, MaxPosts)
    \/ \E id \in PostIds : AdminDeletePost(id)
    \/ \E sl \in AllGroups : AdminDeleteGroup(sl)
    \/ \E u \in {Anonymous, "auth1"}, sl \in Slugs :
           group_posts(u, sl, NoPage)
    \/ \E u \in {Anonymous, "auth1"}, n \in Usernames :
           profile(u, n, NoPage)
    \/ \E u \in {Anonymous, "auth1"}, id \in PostIds : post_detail(u, id)
    \/ \E b \in {Get, ValidBody}, id \in PostIds : post_edit("auth1", b, id)
    \/ \E id \in PostIds : add_comment("auth1", ValidBody, id)
    \/ \E n \in Usernames : profile_follow("auth1", Get, n)
    \/ \E n \in Usernames : profile_unfollow("auth1", Get, n)

SpecMissing == Init /\ [][NextMissing]_vars

(* Following: the follow views and the feed, on a store that already holds
   a page of posts of one author *)

FeedSeed == POSTS_ON_PAGE

SeedPosts(n, author, group) ==
    {[id |-> i, author |-> author, text |-> "a", group |-> group,
      pub_date |-> i] : i \in 1 .. n}

InitFollow ==
    /\ posts = SeedPosts(FeedSeed, "auth2", NoGroup)
    /\ nextPostId = FeedSeed + 1
    /\ comments = {}
    /\ nextCommentId = 1
    /\ follows = {}
    /\ nextFollowId = 1
    /\ groups = AllGroups
    /\ now = FeedSeed + 1
    /\ cache = [pg \in PageParams |-> NoCache]
    /\ prevFollows = {}
    /\ last = Response(NoRequest, 0, NoPath, NoPath, <<>>, <<>>)
    /\ flight = [s \in Slots |-> Idle]

NextFollow ==
    \/ \E u \in Users, b \in {Get, <<"POST", NoData>>}, n \in Usernames :
           profile_follow(u, b, n)
    \/ \E u \in Users, b \in {Get, <<"POST", NoData>>}, n \in Usernames :
           profile_unfollow(u, b, n)
    \/ \E u \in Users, pg \in PageParams : follow_index(u, pg)
    \/ \E u \in Users : post_create(u, ValidBody, FeedSeed + MaxFeedPosts)

SpecFollow == InitFollow /\ [][NextFollow]_vars

(* The public listings while new posts arrive and time passes, on the
   seeded store *)

GroupBody == <<"POST", [text |-> "a", group |-> "g1", bound |-> TRUE]>>

NextNewest ==
    \/ \E u \in Users : post_create(u, GroupBody, FeedSeed + MaxFeedPosts)
    \/ index(Anonymous, NoPage)
    \/ \E n \in Users, pg \in {NoPage, 2} : profile(Anonymous, n, pg)
    \/ group_posts(Anonymous, "g1", NoPage)
    \/ Tick(1, FeedSeed + 1 + MaxTime)

SpecNewest == InitFollow /\ [][NextNewest]_vars

(* Paging: the three public listings of a store of seeded posts, all of one
   author and one group *)

InitPaging ==
    \E n \in 0 .. MaxSeed :
        /\ posts = SeedPosts(n, "auth1", "g1")
        /\ nextPostId = n + 1
        /\ comments = {}
        /\ nextCommentId = 1
        /\ follows = {}
        /\ nextFollowId = 1
        /\ groups = AllGroups
        /\ now = n + 1
        /\ cache = [pg \in PageParams |-> NoCache]
        /\ prevFollows = {}
        /\ last = Response(NoRequest, 0, NoPath, NoPath, <<>>, <<>>)
        /\ flight = [s \in Slots |-> Idle]

NextPaging ==
    \/ \E pg \in PageParams : index("auth1", pg)
    \/ \E n \in Usernames, pg \in PageParams : profile("auth1", n, pg)
    \/ \E sl \in Slugs, pg \in PageParams : group_posts("auth1", sl, pg)

SpecPaging == InitPaging /\ [][NextPaging]_vars

(* The cached home listing while posts come and go and time passes *)

NextCache ==
    \/ index(Anonymous, NoPage)
    \/ \E t \in Texts :
           post_create("auth1", <<"POST", [text |-> t, group |-> NoGroup,
                                            bound |-> TRUE]>>, MaxCachePosts)
    \/ \E id \in 1 .. MaxCachePosts : AdminDeletePost(id)
    \/ Tick(CacheTick, MaxCacheTime)
    \/ CacheClear

SpecCache == Init /\ [][NextCache]_vars

----------------------------------------------------------------------------
(* Properties *)

\* C1: a valid post_create submission of a logged-in user adds exactly one
\* Post, whose author is the user and whose text and group are the submitted
\* ones, and answers with a redirect to the user's profile; no other Post,
\* Comment or Follow record changes.
CreateAddsOnePost ==
    [][(/\ last'.req.view = "post_create"
        /\ last'.req.user \in Users
        /\ PostFormValid(last'.req.data))
       => /\ Cardinality(posts') = Cardinality(posts) + 1
          /\ posts \subseteq posts'
          /\ \A p \in posts' \ posts :
                /\ p.author = last'.req.user
                /\ p.text = last'.req.data.text
                /\ p.group = last'.req.data.group
          /\ last'.status = 302
          /\ last'.location = ProfilePath(last'.req.user)
          /\ comments' = comments
          /\ follows' = follows]_vars

CreatedPostSeen ==
    /\ last.req.view = "post_create"
    /\ last.status = 302
    /\ last.req.data.group \in AllGroups
    /\ \E p \in posts : /\ p.id = nextPostId - 1
                        /\ p.author = last.req.user
                        /\ p.text = last.req.data.text
                        /\ p.group = last.req.data.group
    /\ Cardinality(posts) = 2

\* the path a request was made to, with its query string
RequestPath(req) ==
    CASE req.view = "post_create" -> <<"create">>
      [] req.view = "post_edit" -> <<"posts", ToString(req.pk), "edit">>
      [] req.view = "add_comment" -> <<"posts", ToString(req.pk), "comment">>
      [] req.view = "follow_index" ->
            IF req.page = NoPage THEN <<"follow">>
            ELSE <<"follow", "?page", ToString(req.page)>>
      [] req.view = "profile_follow" -> <<"profile", req.name, "follow">>
      [] req.view = "profile_unfollow" -> <<"profile", req.name, "unfollow">>
      [] OTHER -> NoPath

ProtectedViews == {"post_create", "post_edit", "add_comment", "follow_index",
                   "profile_follow", "profile_unfollow"}

\* C2: a request of an anonymous client to a protected route, with any
\* method and any data, is answered with a redirect to the login path that
\* carries the requested path as next, and changes no Post, Comment or
\* Follow record.
AnonymousSentToLogin ==
    [][(last'.req.user = Anonymous /\ last'.req.view \in ProtectedViews)
       => /\ last'.status = 302
          /\ last'.location = LoginPath
          /\ last'.next = RequestPath(last'.req)
          /\ posts' = posts
          /\ comments' = comments
          /\ follows' = follows]_vars

AnonymousPostRefused ==
    /\ last.req.user = Anonymous
    /\ last.req.view = "post_edit"
    /\ last.req.method = "POST"
    /\ last.req.data.bound /\ last.req.data.text = "b"
    /\ last.status = 302
    /\ last.next = <<"posts", "1", "edit">>
    /\ \E p \in posts : p.id = 1 /\ p.text = "a"
    /\ comments # {}
    /\ follows # {}

\* C3 as stated: a valid post_edit by the author sets the text and keeps
\* the id, the author and the group of the post.
EditKeepsGroup ==
    [][(/\ last'.req.view = "post_edit"
        /\ PostFormValid(last'.req.data)
        /\ \E p \in posts : p.id = last'.req.pk /\ p.author = last'.req.user)
       => /\ Cardinality(posts') = Cardinality(posts)
          /\ \A p \in posts : p.id = last'.req.pk =>
                \E q \in posts' : /\ q.id = p.id
                                  /\ q.author = p.author
                                  /\ q.group = p.group
                                  /\ q.text = last'.req.data.text
          /\ last'.status = 302
          /\ last'.location = PostDetailPath(last'.req.pk)]_vars

\* C3 amended: a valid post_edit by the author sets the text and the group
\* of the post to the submitted ones and keeps its id, author and creation
\* time; every other post is untouched and the answer is a redirect to the
\* post's detail view.
EditSetsTextAndGroup ==
    [][(/\ last'.req.view = "post_edit"
        /\ PostFormValid(last'.req.data)
        /\ \E p \in posts : p.id = last'.req.pk /\ p.author = last'.req.user)
       => /\ Cardinality(posts') = Cardinality(posts)
          /\ \A p \in posts :
                IF p.id = last'.req.pk
                THEN [id |-> p.id, author |-> p.author,
                      text |-> last'.req.data.text,
                      group |-> last'.req.data.group,
                      pub_date |-> p.pub_date] \in posts'
                ELSE p \in posts'
          /\ last'.status = 302
          /\ last'.location = PostDetailPath(last'.req.pk)]_vars

EditedPostSeen ==
    /\ last.req.view = "post_edit"
    /\ last.status = 302
    /\ last.location = <<"posts", "1">>
    /\ \E p \in posts : /\ p.id = 1
                        /\ p.author = last.req.user
                        /\ p.text = "b"
                        /\ p.group = NoGroup
                        /\ last.req.data.text = "b"
                        /\ last.req.data.group = NoGroup
    /\ \E p \in posts : p.id = 2 /\ p.text = "a" /\ p.group = "g1"

\* C4: post_edit by a logged-in user who is not the post's author, with any
\* method and data, answers with a redirect to the post's detail view and
\* changes no Post; the text, author and creation time of a post change
\* only in a post_edit request of its author, and its group only there or
\* when its group is deleted.
OnlyAuthorEdits ==
    [][/\ (/\ last'.req.view = "post_edit"
           /\ last'.req.user \in Users
           /\ \E p \in posts : /\ p.id = last'.req.pk
                               /\ p.author # last'.req.user)
          => /\ last'.status = 302
             /\ last'.location = PostDetailPath(last'.req.pk)
             /\ posts' = posts
       /\ \A p \in posts : \A q \in posts' :
             (p.id = q.id /\ p # q) =>
                \/ /\ last'.req.view = "post_edit"
                   /\ last'.req.user = p.author
                   /\ last'.req.pk = p.id
                   /\ q.author = p.author
                \/ /\ last'.req.view = "admin_delete_group"
                   /\ q = [p EXCEPT !.group = NoGroup]]_vars

StrangerEditRefused ==
    /\ last.req.view = "post_edit"
    /\ last.req.user \in Users
    /\ last.req.method = "POST"
    /\ last.req.data.bound /\ last.req.data.text = "b"
    /\ last.status = 302
    /\ \E p \in posts : /\ p.id = last.req.pk
                        /\ p.author # last.req.user
                        /\ p.text = "a"
                        /\ last.location = <<"posts", ToString(p.id)>>

\* C5: profile_follow by u on another user a to whom no Follow record links
\* u adds exactly one Follow record, with user u and author a, and changes
\* no other; profile_unfollow by u on a right after it gives back the Follow
\* table as it was before the follow; profile_unfollow without a Follow
\* record for the pair changes nothing.
FollowThenUnfollow ==
    [][LET u == last'.req.user
           a == last'.req.name
           linked(S) == \E f \in S : f.user = u /\ f.author = a
       IN /\ (/\ last'.req.view = "profile_follow"
              /\ u \in Users /\ a \in Users /\ u # a
              /\ ~linked(follows))
             => /\ Cardinality(follows') = Cardinality(follows) + 1
                /\ follows \subseteq follows'
                /\ \A f \in follows' \ follows : f.user = u /\ f.author = a
          /\ (/\ last'.req.view = "profile_unfollow"
              /\ last.req.view = "profile_follow"
              /\ last.req.user = u /\ last.req.name = a
              /\ u \in Users /\ a \in Users /\ u # a
              /\ ~linked(prevFollows))
             => follows' = prevFollows
          /\ (/\ last'.req.view = "profile_unfollow"
              /\ u \in Users /\ a \in Users
              /\ ~linked(follows))
             => follows' = follows]_vars

UnfollowedAgain ==
    /\ last.req.view = "profile_unfollow"
    /\ last.status = 302
    /\ \E f \in prevFollows :
          /\ f.user = last.req.user
          /\ f.author = last.req.name
          /\ follows = prevFollows \ {f}
    /\ follows # {}

FollowRedirectsToProfile ==
    [][(/\ last'.req.view \in {"profile_follow", "profile_unfollow"}
        /\ last'.req.user \in Users
        /\ last'.req.name \in Users)
       => /\ last'.status = 302
          /\ last'.location = <<"profile", last'.req.name>>]_vars

\* the elements of a sequence
Range(seq) == {seq[i] : i \in 1 .. Len(seq)}

\* the posts of the authors that user follows
FollowedPosts(user) ==
    {p \in posts : \E f \in follows : f.user = user /\ f.author = p.author}

\* C8: in every state the pages that follow_index serves to a user hold,
\* taken together, exactly the posts of the authors the user follows, and
\* every follow_index response is the requested page of that listing.
FeedIsFollowedAuthors ==
    /\ [](\A u \in Users : \A rows \in Ordered(FeedRows(u)) :
             UNION {Range(get_page_context(RowPosts(rows), n)) :
                       n \in 1 .. NumPages(Len(rows), POSTS_ON_PAGE)}
                = FollowedPosts(u))
    /\ [][(last'.req.view = "follow_index" /\ last'.req.user \in Users)
          => /\ last'.status = 200
             /\ Range(last'.page_obj) \subseteq FollowedPosts(last'.req.user)
             /\ Len(last'.page_obj)
                  = IF last'.req.page \in {NoPage, 1}
                         /\ Cardinality(FollowedPosts(last'.req.user))
                               > POSTS_ON_PAGE
                    THEN POSTS_ON_PAGE
                    ELSE Cardinality(FollowedPosts(last'.req.user))
                            - (IF Cardinality(FollowedPosts(last'.req.user))
                                     > POSTS_ON_PAGE
                               THEN POSTS_ON_PAGE ELSE 0)]_vars

NewPostOnSecondFeedPage ==
    /\ last.req.view = "follow_index"
    /\ last.req.user = "auth1"
    /\ last.req.page = 2
    /\ Len(last.page_obj) = 1
    /\ last.page_obj[1].author = "auth2"
    /\ \E p \in posts : p.author = "auth1" /\ p.id > FeedSeed
    /\ \E p \in posts : p.author = "auth2" /\ p.id > FeedSeed
    /\ \E f \in follows : f.user = "auth2" /\ f.author = "auth1"

\* the number of posts in the collection that a listing request lists
ListedCount(req) ==
    CASE req.view = "index" -> Cardinality(posts)
      [] req.view = "profile" ->
            Cardinality({p \in posts : p.author = req.name})
      [] req.view = "group_posts" ->
            Cardinality({p \in posts : p.group = req.name})
      [] OTHER -> 0

\* C9: with 13 posts in the listed collection, index, profile and
\* group_posts return POSTS_ON_PAGE items on page 1 and POSTS_ON_SECOND_PAGE
\* items on page 2.
ThirteenPostsOnTwoPages ==
    [][(/\ last'.req.view \in {"index", "profile", "group_posts"}
        /\ ListedCount(last'.req) = SEED_POSTS)
       => /\ last'.status = 200
          /\ last'.req.page \in {NoPage, 1}
                => Len(last'.page_obj) = POSTS_ON_PAGE
          /\ last'.req.page = 2
                => Len(last'.page_obj) = POSTS_ON_SECOND_PAGE]_vars

SecondPageOfGroupSeen ==
    /\ last.req.view = "group_posts"
    /\ last.req.name = "g1"
    /\ last.req.page = 2
    /\ Cardinality(posts) = SEED_POSTS
    /\ Len(last.page_obj) = POSTS_ON_SECOND_PAGE
    /\ last.page_obj[1].id = POSTS_ON_SECOND_PAGE

\* C10: a request for the home listing made while the cache entry of an
\* earlier request is still in its window returns the content of that
\* earlier request, whatever posts were created or deleted in between; the
\* content is rendered anew only once the window has elapsed or the cache
\* was cleared, and only index and cache.clear() touch the cache.
IndexServedFromCache ==
    [][LET pg == last'.req.page
       IN IF last'.req.view = "index"
          THEN IF cache[pg].filled /\ now < cache[pg].expires
               THEN /\ last'.content = cache[pg].content
                    /\ cache' = cache
               ELSE /\ last'.content = last'.page_obj
                    /\ Range(last'.content) \subseteq posts
                    /\ cache'[pg].filled
                    /\ cache'[pg].content = last'.content
                    /\ cache'[pg].expires = now + CACHE_SECONDS
          ELSE last'.req.view # "cache_clear" => cache' = cache]_vars

DeletedPostStillListed ==
    /\ last.req.view = "index"
    /\ last.status = 200
    /\ posts = {}
    /\ last.page_obj = <<>>
    /\ Len(last.content) = 2
    /\ now > 0

\* C11: add_comment of a logged-in user on an existing post always answers
\* with a redirect to the post's detail view; a valid submission adds
\* exactly one Comment, with the user as author, the post as post and the
\* submitted text, and any other request (a GET included) leaves the
\* Comment table as it is.
CommentAddedIffValid ==
    [][(/\ last'.req.view = "add_comment"
        /\ last'.req.user \in Users
        /\ \E p \in posts : p.id = last'.req.pk)
       => /\ last'.status = 302
          /\ last'.location = <<"posts", ToString(last'.req.pk)>>
          /\ posts' = posts
          /\ follows' = follows
          /\ IF last'.req.data.bound /\ last'.req.data.text # ""
             THEN /\ Cardinality(comments') = Cardinality(comments) + 1
                  /\ comments \subseteq comments'
                  /\ \A c \in comments' \ comments :
                        /\ c.author = last'.req.user
                        /\ c.post = last'.req.pk
                        /\ c.text = last'.req.data.text
             ELSE comments' = comments]_vars

CommentOnOthersPost ==
    /\ last.req.view = "add_comment"
    /\ last.req.method = "POST"
    /\ last.status = 302
    /\ last.location = <<"posts", "2">>
    /\ \E c \in comments : \E p \in posts :
          /\ p.id = 2 /\ c.post = 2
          /\ c.author = last.req.user
          /\ c.author # p.author
          /\ c.text = "b" /\ last.req.data.text = "b"

\* C12: a request for a group slug, a username or a post id that does not
\* exist, made to group_posts, profile or post_detail, or by a logged-in
\* user to post_edit, add_comment, profile_follow or profile_unfollow, is
\* answered with 404 and changes no Post, Comment or Follow record.
MissingObjectIs404 ==
    [][LET req == last'.req
           missing ==
              CASE req.view = "group_posts" -> req.name \notin groups
                [] req.view \in {"profile", "profile_follow",
                                 "profile_unfollow"} -> req.name \notin Users
                [] req.view \in {"post_detail", "post_edit", "add_comment"} ->
                      ~ \E p \in posts : p.id = req.pk
                [] OTHER -> FALSE
           admitted ==
              \/ req.view \in {"group_posts", "profile", "post_detail"}
              \/ req.user \in Users
       IN (missing /\ admitted)
          => /\ last'.status = 404
             /\ posts' = posts
             /\ comments' = comments
             /\ follows' = follows]_vars

DeletedPostNotFound ==
    /\ last.req.view = "post_edit"
    /\ last.req.user = "auth1"
    /\ last.req.method = "POST"
    /\ last.req.pk = 1
    /\ last.status = 404
    /\ nextPostId > 1
    /\ \E p \in posts : p.id = 2
    /\ follows # {}
    /\ groups = {}

\* C13: an invalid submission to post_create, or to post_edit by the post's
\* author, gets the form again with status 200 and no redirect, and leaves
\* the store as it is.
InvalidFormRerendered ==
    [][LET req == last'.req
           valid == /\ req.data.bound
                    /\ req.data.text # ""
                    /\ req.data.group \in groups \cup {NoGroup}
       IN (/\ req.user \in Users
           /\ ~valid
           /\ \/ req.view = "post_create"
              \/ /\ req.view = "post_edit"
                 /\ \E p \in posts : p.id = req.pk /\ p.author = req.user)
          => /\ last'.status = 200
             /\ last'.location = NoPath
             /\ posts' = posts
             /\ nextPostId' = nextPostId
             /\ comments' = comments
             /\ follows' = follows]_vars

EditWithDeletedGroupRefused ==
    /\ last.req.view = "post_edit"
    /\ last.status = 200
    /\ last.req.data.bound
    /\ last.req.data.text = "b"
    /\ last.req.data.group = "g1"
    /\ groups = {}
    /\ \E p \in posts : /\ p.id = last.req.pk
                        /\ p.author = last.req.user
                        /\ p.text = "a"

\* C14: profile_follow of a user on their own username creates no Follow
\* record, and no Follow record ever has its user as its author.
NoSelfFollow ==
    /\ [](\A f \in follows : f.user # f.author)
    /\ [][(/\ last'.req.view = "profile_follow"
           /\ last'.req.user \in Users
           /\ last'.req.name = last'.req.user)
          => follows' = follows]_vars

SelfFollowIgnored ==
    /\ last.req.view = "profile_follow"
    /\ last.req.user \in Users
    /\ last.req.name = last.req.user
    /\ last.status = 302
    /\ follows # {}
    /\ follows = prevFollows

\* C15: with requests handled one at a time there is at most one Follow
\* record for a (user, author) pair, and profile_follow on an author the
\* user already follows creates nothing.
FollowPairUnique ==
    /\ [](\A f \in follows : \A g \in follows :
             (f.user = g.user /\ f.author = g.author) => f = g)
    /\ [][(/\ last'.req.view = "profile_follow"
           /\ \E f \in follows : /\ f.user = last'.req.user
                                 /\ f.author = last'.req.name)
          => follows' = follows]_vars

FollowedTwice ==
    /\ last.req.view = "profile_follow"
    /\ last.req.method = "POST"
    /\ last.status = 302
    /\ follows = prevFollows
    /\ Cardinality(follows) = 2
    /\ \E f \in follows : /\ f.user = last.req.user
                          /\ f.author = last.req.name

\* C16: deleting a group deletes no post: the number of posts is the same
\* and every post is still there with its id, text, author and creation
\* time, the posts of the deleted group with an empty group reference.
GroupDeleteKeepsPosts ==
    [][last'.req.view = "admin_delete_group"
       => /\ Cardinality(posts') = Cardinality(posts)
          /\ \A p \in posts :
                [id |-> p.id, author |-> p.author, text |-> p.text,
                 group |-> IF p.group = last'.req.name THEN NoGroup
                           ELSE p.group,
                 pub_date |-> p.pub_date] \in posts'
          /\ last'.req.name \notin groups'
          /\ comments' = comments]_vars

GroupDeletedPostsKept ==
    /\ last.req.view = "admin_delete_group"
    /\ last.req.name = "g1"
    /\ groups = {}
    /\ Cardinality(posts) = 2
    /\ \A p \in posts : p.group = NoGroup
    /\ \E p \in posts : \E q \in posts : p.author # q.author /\ p.text # q.text

\* a sequence of posts in non-increasing order of creation time
NewestFirst(seq) ==
    \A i \in 1 .. Len(seq) : \A j \in 1 .. Len(seq) :
        i < j => seq[i].pub_date >= seq[j].pub_date

\* the post that the post_create request recorded in last has created
JustCreated ==
    {p \in posts : /\ last.req.view = "post_create"
                   /\ last.status = 302
                   /\ p.id = nextPostId - 1}

\* the queryset that a listing request pages through
Listed(req) ==
    CASE req.view = "index" -> posts
      [] req.view = "profile" -> {p \in posts : p.author = req.name}
      [] req.view = "group_posts" -> {p \in posts : p.group = req.name}
      [] OTHER -> {}

\* a post created later than every other post
StrictlyNewest(p) == \A q \in posts \ {p} : q.pub_date < p.pub_date

\* C17 as stated, for a new post that is strictly the newest: index,
\* group_posts and profile serve their posts in non-increasing order of
\* creation time, and a post just created by post_create is the first item
\* of page 1 of index and of its author's profile.
NewPostListedFirst ==
    [][last'.req.view \in {"index", "group_posts", "profile"}
       => /\ NewestFirst(last'.page_obj)
          /\ NewestFirst(last'.content)
          /\ \A p \in JustCreated :
                (/\ StrictlyNewest(p)
                 /\ last'.req.page \in {NoPage, 1}
                 /\ \/ last'.req.view = "index"
                    \/ last'.req.view = "profile" /\ last'.req.name = p.author)
                => /\ Len(last'.content) > 0
                   /\ last'.content[1] = p]_vars

\* p is in seq and only posts of its own creation time come before it
LeadsItsTime(seq, p) ==
    \E i \in 1 .. Len(seq) :
        /\ seq[i] = p
        /\ \A j \in 1 .. (i - 1) : seq[j].pub_date = p.pub_date

\* all pages of every order in which the rows can be listed, one after the
\* other, are in non-increasing order of creation time
PagesNewestFirst(rows) ==
    \A qs \in Ordered(rows) :
        LET pages == 1 .. NumPages(Len(qs), POSTS_ON_PAGE)
        IN \A m \in pages : \A n \in pages :
              LET first == get_page_context(qs, m)
                  second == get_page_context(qs, n)
              IN /\ NewestFirst(first)
                 /\ m < n => \A i \in 1 .. Len(first) :
                                \A j \in 1 .. Len(second) :
                                   first[i].pub_date >= second[j].pub_date

\* C17 amended: the pages of index, group_posts and profile are in
\* non-increasing order of creation time, over all their pages; right after
\* post_create the new post is on page 1 of its author's profile and of a
\* freshly rendered index, behind posts of its own creation time only, so
\* it is the first item when it is strictly the newest; an index page that
\* comes from the cache is the content of the request that filled the cache.
ListingsNewestFirst ==
    /\ [](/\ PagesNewestFirst(posts)
          /\ \A u \in Users : PagesNewestFirst({p \in posts : p.author = u})
          /\ \A g \in AllGroups :
                PagesNewestFirst({p \in posts : p.group = g}))
    /\ [][last'.req.view \in {"index", "group_posts", "profile"}
          => /\ NewestFirst(last'.page_obj)
             /\ NewestFirst(last'.content)
             /\ Range(last'.page_obj) \subseteq Listed(last'.req)
             /\ \A p \in JustCreated :
                   (/\ last'.req.page \in {NoPage, 1}
                    /\ Cardinality({q \in posts : q.pub_date = p.pub_date})
                          <= POSTS_ON_PAGE
                    /\ \/ last'.req.view = "index"
                       \/ /\ last'.req.view = "profile"
                          /\ last'.req.name = p.author)
                   => /\ LeadsItsTime(last'.page_obj, p)
                      /\ StrictlyNewest(p) => last'.page_obj[1] = p
                      /\ IF /\ last'.req.view = "index"
                            /\ cache[last'.req.page].filled
                            /\ now < cache[last'.req.page].expires
                         THEN last'.content = cache[last'.req.page].content
                         ELSE last'.content = last'.page_obj]_vars

NewPostLeadsProfile ==
    /\ last.req.view = "profile"
    /\ last.req.name = "auth2"
    /\ last.req.page = NoPage
    /\ Len(last.page_obj) = POSTS_ON_PAGE
    /\ last.page_obj[1].id = nextPostId - 1
    /\ last.page_obj[1].id > FeedSeed
    /\ last.page_obj[1].pub_date > last.page_obj[2].pub_date
    /\ last.page_obj[POSTS_ON_PAGE].id = 2

----------------------------------------------------------------------------
(* Interleaved profile_follow and profile_unfollow requests of one user *)

NextRace ==
    \/ \E s \in Slots, n \in Users : FollowCheck(s, "auth1", n)
    \/ \E s \in Slots : FollowCreate(s)
    \/ \E s \in Slots, n \in Users : UnfollowCheck(s, "auth1", n)
    \/ \E s \in Slots : UnfollowDelete(s)

SpecRace == Init /\ [][NextRace]_vars

\* no request is between its two statements
Quiescent == \A s \in Slots : flight[s].pc = "idle"

\* C18: once interleaved profile_follow requests of one user for one author
\* have all completed, the Follow table holds at most one record for the
\* (user, author) pair.
OneFollowAfterRace ==
    Quiescent => \A u \in Users : \A a \in Users :
                    Cardinality(FollowLinks(u, a)) <= 1

\* C19: every profile_unfollow request of a logged-in user for an existing
\* author ends, under any interleaving with profile_follow and
\* profile_unfollow requests of the same user, in the redirect to the feed
\* and not in an unhandled error, and leaves none of the Follow records of
\* the pair that its existence check has found (records that a
\* profile_follow creates after the check are not counted against it).
UnfollowAlwaysRedirects ==
    [][\A s \in Slots :
          (/\ flight[s].pc = "checked"
           /\ flight[s].view = "profile_unfollow"
           /\ flight'[s].pc = "idle")
          => /\ last'.status = 302
             /\ last'.location = FollowIndexPath
             /\ follows' \cap flight[s].seen = {}]_vars

====
